---- MODULE Spec2Model ----
(***************************************************************************)
(* Model of the venue importer of backend/import_venues_csv.py: address    *)
(* normalisation, candidate generation, the geocode cache, the rate        *)
(* limited lookup client and the per-row reconciliation against the store. *)
(*                                                                         *)
(* Text is modelled as a sequence of one-character strings, so that        *)
(* strip(), lower(), split(",") and the regular expressions of the source  *)
(* are computed character by character.                                    *)
(***************************************************************************)
EXTENDS Integers, Sequences, FiniteSets, TLC

(***************************************************************************)
(* Character classes of Python's re module and of str.strip / str.lower.   *)
(***************************************************************************)
UpperLetters == <<"A","B","C","D","E","F","G","H","I","J","K","L","M",
                  "N","O","P","Q","R","S","T","U","V","W","X","Y","Z">>

LowerLetters == <<"a","b","c","d","e","f","g","h","i","j","k","l","m",
                  "n","o","p","q","r","s","t","u","v","w","x","y","z">>

Digits == {"0","1","2","3","4","5","6","7","8","9"}

Range(f) == {f[i] : i \in DOMAIN f}

\* str.lower() of one character
LowerChar(ch) ==
    IF \E i \in 1..26 : UpperLetters[i] = ch
    THEN LowerLetters[CHOOSE i \in 1..26 : UpperLetters[i] = ch]
    ELSE ch

\* str.lower()
Lower(s) == [i \in DOMAIN s |-> LowerChar(s[i])]

\* \w of the re module
IsWordChar(ch) ==
    \/ \E i \in 1..26 : ch = UpperLetters[i] \/ ch = LowerLetters[i]
    \/ ch \in Digits
    \/ ch = "_"

\* \s of the re module, and the characters str.strip() removes
IsSpace(ch) == ch \in {" ", "\t", "\n", "\r"}

\* the slice s[a..b] (1-based, inclusive), empty when a > b
Slice(s, a, b) == IF a > b THEN <<>> ELSE SubSeq(s, a, b)

\* index of the first character of s outside the set drop, Len(s)+1 if none
RECURSIVE FirstKept(_, _, _)
FirstKept(s, drop, i) ==
    IF i > Len(s) THEN i
    ELSE IF s[i] \in drop THEN FirstKept(s, drop, i + 1) ELSE i

\* index of the last character of s outside the set drop, 0 if none
RECURSIVE LastKept(_, _, _)
LastKept(s, drop, i) ==
    IF i < 1 THEN 0
    ELSE IF s[i] \in drop THEN LastKept(s, drop, i - 1) ELSE i

\* str.strip(chars)
StripChars(s, drop) == Slice(s, FirstKept(s, drop, 1), LastKept(s, drop, Len(s)))

\* str.strip()
Strip(s) == StripChars(s, {" ", "\t", "\n", "\r"})

\* pattern occurs in s at position i
MatchAt(s, i, pat) ==
    /\ i + Len(pat) - 1 <= Len(s)
    /\ \A k \in 1..Len(pat) : s[i + k - 1] = pat[k]

\* the Python test  pat in s
Contains(s, pat) == \E i \in 1..(Len(s) + 1) : MatchAt(s, i, pat)

\* \b of the re module between positions i-1 and i of s
WordBoundary(s, i) ==
    (i > 1 /\ i - 1 <= Len(s) /\ IsWordChar(s[i - 1]))
        # (i >= 1 /\ i <= Len(s) /\ IsWordChar(s[i]))

(***************************************************************************)
(* re.sub for the patterns of the importer.  Each operator scans the       *)
(* subject from left to right, replaces the leftmost match and goes on     *)
(* after it; word boundaries are those of the subject, as in re.sub.       *)
(***************************************************************************)

\* the literal strings of the source
TxtBali == <<"B","a","l","i">>

TxtIndonesia == <<"I","n","d","o","n","e","s","i","a">>

CommaSpace == <<",", " ">>

\* ABBR_MAP in insertion order: the word after \b (lower case, the patterns are
\* applied with re.IGNORECASE), the alternatives that may follow it in the
\* order the regex engine tries them, and the replacement
ABBR_MAP == <<
    [word |-> <<"j","l">>, tails |-> << <<".">>, <<>> >>,
     repl |-> <<"J","a","l","a","n">>],
    [word |-> <<"g","g">>, tails |-> << <<".">>, <<>> >>,
     repl |-> <<"G","a","n","g">>],
    [word |-> <<"k","e","c">>, tails |-> << <<".">>, <<>> >>, repl |-> <<>>],
    [word |-> <<"k","a","b">>,
     tails |-> << <<".">>, <<"u","p","a","t","e","n">>, <<>> >>, repl |-> <<>>],
    [word |-> <<"k","o","t","a">>, tails |-> << <<>> >>, repl |-> <<>>],
    [word |-> <<"b","a","r">>, tails |-> << <<".">> >>,
     repl |-> <<"B","a","r","a","t">>],
    [word |-> <<"s","e","l">>, tails |-> << <<".">> >>,
     repl |-> <<"S","e","l","a","t","a","n">>],
    [word |-> <<"u","t">>, tails |-> << <<".">> >>,
     repl |-> <<"U","t","a","r","a">>],
    [word |-> <<"t","i","m">>, tails |-> << <<".">> >>,
     repl |-> <<"T","i","m","u","r">>],
    [word |-> <<"r","e","g","e","n","c","y">>, tails |-> << <<>> >>,
     repl |-> <<>>] >>

\* POSTCODE_RE = \b\d{5}\b : length of the match at position i, 0 if none
PostcodeMatch(s, i) ==
    IF /\ i + 4 <= Len(s)
       /\ \A k \in i..(i + 4) : s[k] \in Digits
       /\ WordBoundary(s, i)
       /\ WordBoundary(s, i + 5)
    THEN 5 ELSE 0

\* SubPostcode without the substitution of line 42: the postal code is kept
SubPostcodeKept(s, i) == Slice(s, i, Len(s))

\* POSTCODE_RE.sub("", s) from position i on
RECURSIVE SubPostcode(_, _)
SubPostcode(s, i) ==
    IF i > Len(s) THEN <<>>
    ELSE IF PostcodeMatch(s, i) > 0 THEN SubPostcode(s, i + 5)
    ELSE <<s[i]>> \o SubPostcode(s, i + 1)

\* the tails of one abbreviation that match at position j and end at a word
\* boundary, as indices into ab.tails
AbbrTails(s, j, ab) ==
    {t \in DOMAIN ab.tails :
        /\ MatchAt(Lower(s), j, ab.tails[t])
        /\ WordBoundary(s, j + Len(ab.tails[t]))}

\* \bWORD(tail)\b with re.IGNORECASE: length of the match at i, 0 if none; the
\* engine takes the first alternative that lets the whole pattern match
AbbrMatchLen(ab, ts) ==
    IF ts = {} THEN 0
    ELSE Len(ab.word) + Len(ab.tails[CHOOSE x \in ts : \A y \in ts : x <= y])

AbbrMatch(s, i, ab) ==
    IF WordBoundary(s, i) /\ MatchAt(Lower(s), i, ab.word)
    THEN AbbrMatchLen(ab, AbbrTails(s, i + Len(ab.word), ab))
    ELSE 0

\* re.sub(pat, repl, s, flags=re.IGNORECASE) from position i on; SubAbbrAt is
\* the step at i given the length n of the match there
RECURSIVE SubAbbr(_, _, _)
SubAbbrAt(s, i, ab, n) ==
    IF n > 0 THEN ab.repl \o SubAbbr(s, i + n, ab)
    ELSE <<s[i]>> \o SubAbbr(s, i + 1, ab)

SubAbbr(s, i, ab) ==
    IF i > Len(s) THEN <<>> ELSE SubAbbrAt(s, i, ab, AbbrMatch(s, i, ab))

\* the loop over ABBR_MAP.items(), entries k..Len(ABBR_MAP)
RECURSIVE ApplyAbbrs(_, _)
ApplyAbbrs(s, k) ==
    IF k > Len(ABBR_MAP) THEN s
    ELSE ApplyAbbrs(SubAbbr(s, 1, ABBR_MAP[k]), k + 1)

\* end of the run of \s characters that starts at i (i itself if none)
RECURSIVE SpaceRunEnd(_, _)
SpaceRunEnd(s, i) ==
    IF i <= Len(s) /\ IsSpace(s[i]) THEN SpaceRunEnd(s, i + 1) ELSE i

\* re.sub(r"\s*,\s*", ", ", s) from position i on
\* SubCommaAt is the step at i given the end c of the run of \s that starts there
RECURSIVE SubComma(_, _)
SubCommaAt(s, i, c) ==
    IF c <= Len(s) /\ s[c] = ","
    THEN CommaSpace \o SubComma(s, SpaceRunEnd(s, c + 1))
    ELSE <<s[i]>> \o SubComma(s, i + 1)

SubComma(s, i) ==
    IF i > Len(s) THEN <<>> ELSE SubCommaAt(s, i, SpaceRunEnd(s, i))

\* re.sub(r"\s{2,}", " ", s) from position i on; SubSpacesAt is the step at i
\* given the end c of the run of \s that starts there
RECURSIVE SubSpaces(_, _)
SubSpacesAt(s, i, c) ==
    IF c >= i + 2 THEN <<" ">> \o SubSpaces(s, c)
    ELSE <<s[i]>> \o SubSpaces(s, i + 1)

SubSpaces(s, i) ==
    IF i > Len(s) THEN <<>> ELSE SubSpacesAt(s, i, SpaceRunEnd(s, i))

\* lines 50-53: append ", " and the word unless a contains it, case ignored
EnsurePresent(a, word) ==
    IF Contains(Lower(a), Lower(word)) THEN a ELSE a \o CommaSpace \o word

\* normalize_address
normalize_address(addr) ==
    EnsurePresent(
        EnsurePresent(
            Strip(StripChars(
                SubSpaces(SubComma(ApplyAbbrs(SubPostcode(Strip(addr), 1), 1), 1), 1),
                {",", " "})),
            TxtBali),
        TxtIndonesia)

(***************************************************************************)
(* Candidate generation, geocode_bali lines 76-91.                         *)
(***************************************************************************)

\* str.split(",") from position i on, cur being the piece read so far
RECURSIVE SplitComma(_, _, _)
SplitComma(s, i, cur) ==
    IF i > Len(s) THEN <<cur>>
    ELSE IF s[i] = "," THEN <<cur>> \o SplitComma(s, i + 1, <<>>)
    ELSE SplitComma(s, i + 1, Append(cur, s[i]))

\* [p.strip() for p in pieces if p.strip()]
RECURSIVE StrippedNonEmpty(_)
KeepNonEmpty(p, rest) == IF p = <<>> THEN rest ELSE <<p>> \o rest

StrippedNonEmpty(pieces) ==
    IF pieces = <<>> THEN <<>>
    ELSE KeepNonEmpty(Strip(Head(pieces)), StrippedNonEmpty(Tail(pieces)))

\* lines 78-85: the full address, then the first two parts unless they are
\* the full address
WithFallback1(norm, parts) ==
    IF Len(parts) >= 2
       /\ Lower(parts[1] \o CommaSpace \o parts[2]) # Lower(norm)
    THEN <<norm, parts[1] \o CommaSpace \o parts[2]>>
    ELSE <<norm>>

\* WithFallback2 without the test of line 90: c2 is always appended
WithFallback2Always(candidates, c2) == Append(candidates, c2)

\* lines 89-91: c2 is appended unless it is among the candidates, case ignored
WithFallback2(candidates, c2) ==
    IF \E k \in DOMAIN candidates : Lower(candidates[k]) = Lower(c2)
    THEN candidates ELSE Append(candidates, c2)

\* line 88: the first part, or the text before the first comma of the address
NameOnly(parts, raw_address) ==
    IF parts # <<>> THEN parts[1] ELSE Head(SplitComma(raw_address, 1, <<>>))

\* lines 76-91 given the normalized address and its parts
CandidatesOf(norm, parts, raw_address) ==
    WithFallback2(
        WithFallback1(norm, parts),
        NameOnly(parts, raw_address) \o CommaSpace \o TxtBali \o CommaSpace
            \o TxtIndonesia)

PartsOf(norm) == StrippedNonEmpty(SplitComma(norm, 1, <<>>))

CandidatesFrom(norm, raw_address) == CandidatesOf(norm, PartsOf(norm), raw_address)

\* the candidate list of geocode_bali for one raw address
Candidates(raw_address) == CandidatesFrom(normalize_address(raw_address), raw_address)

(***************************************************************************)
(* Row parsing helpers of main.                                            *)
(***************************************************************************)

\* Python's None where a text is expected (no text holds this element)
None == <<"None">>

\* a failed lookup: geocode_bali returns None, a coordinate is <<lat, lon>>
NoLoc == <<>>

\* a value of a cache file that is neither a coordinate nor taken for no
\* result by "not loc": a number, a string, an object without lat or lon
BadValue == <<0>>

\* clean_instagram
clean_instagram(handle) ==
    IF handle = None \/ handle = <<>> THEN None
    ELSE LET h0 == Strip(handle)
             h1 == IF h0 # <<>> /\ h0[1] = "@" THEN Tail(h0) ELSE h0
             h2 == Slice(h1, 1, LastKept(h1, {"/"}, Len(h1)))
         IN  IF h2 = <<>> THEN None ELSE h2

\* resolve_website: the link when it matches ^https?:// (re.I), else None
resolve_website(insta_link) ==
    IF insta_link = None \/ insta_link = <<>> THEN None
    ELSE LET u == Strip(insta_link)
         IN  IF \/ MatchAt(Lower(u), 1, <<"h","t","t","p",":","/","/">>)
                \/ MatchAt(Lower(u), 1, <<"h","t","t","p","s",":","/","/">>)
             THEN u ELSE None

\* the header names main reads
HdrVenue == <<"V","e","n","u","e">>

HdrAddress == <<"A","d","d","r","e","s","s"," ","/"," ","N","o","t","e","s">>

HdrInstaName == <<"I","n","s","t","a","g","r","a","m"," ","n","a","m","e">>

HdrLink == <<"I","n","s","t","g","r","a","m"," ","l","i","n","k">>

HdrLinkSp == <<" ">> \o HdrLink

\* the columns main requires, given the stripped headers (lines 145-148)
Wanted(headers) ==
    <<HdrVenue, HdrAddress, HdrInstaName,
      IF HdrLink \in Range(headers) /\ HdrLinkSp \notin Range(headers)
      THEN HdrLink ELSE HdrLinkSp>>

\* lines 142-153: TRUE when a required column is missing (exit code 2)
HeaderMissing(fieldnames) ==
    LET headers == [i \in DOMAIN fieldnames |-> Strip(fieldnames[i])]
    IN  \E w \in Range(Wanted(headers)) : w \notin Range(headers)

\* row.get(key) of csv.DictReader: the cell under the column named key
RowGet(fieldnames, row, key) ==
    IF \E i \in DOMAIN fieldnames : fieldnames[i] = key /\ i \in DOMAIN row
    THEN row[CHOOSE i \in DOMAIN fieldnames : fieldnames[i] = key /\ i \in DOMAIN row]
    ELSE None

\* x or "" for an optional text
OrEmpty(x) == IF x = None THEN <<>> ELSE x

\* lines 162-165 and 177: the fields main extracts from one row
ParseRow(fieldnames, row) ==
    [name    |-> Strip(OrEmpty(RowGet(fieldnames, row, HdrVenue))),
     address |-> Strip(OrEmpty(RowGet(fieldnames, row, HdrAddress))),
     insta_name |-> clean_instagram(RowGet(fieldnames, row, HdrInstaName)),
     insta_link |->
        LET a == RowGet(fieldnames, row, HdrLinkSp)
            b == RowGet(fieldnames, row, HdrLink)
        IN  Strip(IF a # None /\ a # <<>> THEN a
                  ELSE IF b # None /\ b # <<>> THEN b ELSE <<>>),
     website |-> resolve_website(
        LET a == RowGet(fieldnames, row, HdrLinkSp)
            b == RowGet(fieldnames, row, HdrLink)
        IN  Strip(IF a # None /\ a # <<>> THEN a
                  ELSE IF b # None /\ b # <<>> THEN b ELSE <<>>))]

\* the cache key of geocode_bali, line 72
CacheKey(raw_address) == Strip(raw_address)

(***************************************************************************)
(* The store session.  backend/database.py is not among the sources: the   *)
(* session is modelled from the store collaborator contract (find by name, *)
(* insert, update fields, commit, rollback), where a find sees the records *)
(* inserted earlier in the same run.                                       *)
(***************************************************************************)

\* db.query(Venue).filter(Venue.name == name).one_or_none(): the position of
\* the record in the session, 0 for None
FindByName(session, name) ==
    IF \E i \in DOMAIN session : session[i].name = name
    THEN CHOOSE i \in DOMAIN session :
            /\ session[i].name = name
            /\ \A j \in DOMAIN session : session[j].name = name => i <= j
    ELSE 0

\* the unique constraint on Venue.name, models.py line 30
UniqueNames(session) ==
    \A i, j \in DOMAIN session : session[i].name = session[j].name => i = j

\* Reconcile with the website overwritten like the other fields (the guard
\* "website and" of line 188 dropped)
ReconcileOverwriteWebsite(session, name, address, loc, insta_name, website) ==
    LET e == FindByName(session, name)
    IN  IF e # 0
        THEN LET old == session[e]
                 new == [old EXCEPT !.address = address, !.lat = loc[1],
                                    !.lon = loc[2], !.instagram = insta_name,
                                    !.website = website]
             IN  [session |-> [session EXCEPT ![e] = new],
                  counter |-> IF new # old THEN "updated" ELSE "skipped"]
        ELSE [session |-> Append(session,
                              [name |-> name, address |-> address,
                               lat |-> loc[1], lon |-> loc[2],
                               instagram |-> insta_name, website |-> website]),
              counter |-> "created"]

\* Reconcile without the lookup of line 179: every resolved row is inserted
ReconcileAlwaysInsert(session, name, address, loc, insta_name, website) ==
    [session |-> Append(session,
                    [name |-> name, address |-> address,
                     lat |-> loc[1], lon |-> loc[2],
                     instagram |-> insta_name, website |-> website]),
     counter |-> "created"]

\* Reconcile with "and" for the "or" of line 184: the coordinates are
\* rewritten only when both lat and lon differ
ReconcileBothDiffer(session, name, address, loc, insta_name, website) ==
    LET e == FindByName(session, name)
    IN  IF e # 0
        THEN LET old == session[e]
                 r1  == IF old.address # address
                        THEN [old EXCEPT !.address = address] ELSE old
                 r2  == IF r1.lat # loc[1] /\ r1.lon # loc[2]
                        THEN [r1 EXCEPT !.lat = loc[1], !.lon = loc[2]] ELSE r1
                 r3  == IF r2.instagram # insta_name
                        THEN [r2 EXCEPT !.instagram = insta_name] ELSE r2
                 r4  == IF website # None /\ r3.website # website
                        THEN [r3 EXCEPT !.website = website] ELSE r3
             IN  [session |-> [session EXCEPT ![e] = r4],
                  counter |-> IF r4 # old THEN "updated" ELSE "skipped"]
        ELSE [session |-> Append(session,
                              [name |-> name, address |-> address,
                               lat |-> loc[1], lon |-> loc[2],
                               instagram |-> insta_name, website |-> website]),
              counter |-> "created"]

\* lines 179-206: reconcile one resolved row against the session; the new
\* session and the counter the row falls under
Reconcile(session, name, address, loc, insta_name, website) ==
    LET e == FindByName(session, name)
    IN  IF e # 0
        THEN LET old == session[e]
                 r1  == IF old.address # address
                        THEN [old EXCEPT !.address = address] ELSE old
                 r2  == IF r1.lat # loc[1] \/ r1.lon # loc[2]
                        THEN [r1 EXCEPT !.lat = loc[1], !.lon = loc[2]] ELSE r1
                 r3  == IF r2.instagram # insta_name
                        THEN [r2 EXCEPT !.instagram = insta_name] ELSE r2
                 r4  == IF website # None /\ r3.website # website
                        THEN [r3 EXCEPT !.website = website] ELSE r3
             IN  [session |-> [session EXCEPT ![e] = r4],
                  counter |-> IF r4 # old THEN "updated" ELSE "skipped"]
        ELSE [session |-> Append(session,
                              [name |-> name, address |-> address,
                               lat |-> loc[1], lon |-> loc[2],
                               instagram |-> insta_name, website |-> website]),
              counter |-> "created"]

(***************************************************************************)
(* Bounds and inputs.                                                      *)
(***************************************************************************)

\* most rows of an input file
MaxRows == 2

\* tries=2 of the call of geocode_bali in main
Tries == 2

\* --sleep, default 1.0 second, in tenths of a second: the minimum delay of
\* the rate limiter and the sleep of geocode_bali after a failed attempt
ArgsSleep == 10

\* the coordinates the external service may answer
Coords == {<<1, 1>>, <<1, 2>>}

\* the rows input files are made of: cells in column order
RowPool ==
    { << <<"V">>, <<"A">>, <<"@","h">>, <<"h","t","t","p",":","/","/","x">> >>,
      << <<"V">>, <<"A",",","B">>, <<"h","/">>, <<>> >>,
      << <<"W"," ">>, <<" ","A">>, <<>>, <<"x">> >>,
      << <<" ">>, <<"A">>, <<>>, <<>> >>,
      << <<"W">>, <<" ">>, <<"@","h">>, <<>> >>,
      << <<" ","V">>, <<"A"," ">>, <<"h">>, <<>> >> }

\* the header rows of input files: the sample sheet, the sheet without the
\* space before the link column, and a sheet without the address column
SampleHeader == <<HdrVenue, HdrAddress, HdrInstaName, HdrLinkSp>>

HeaderPool ==
    { SampleHeader,
      <<HdrVenue, HdrAddress, HdrInstaName, HdrLink>>,
      <<HdrVenue, HdrInstaName, HdrLinkSp>> }

\* sequences over S of length at most n
RECURSIVE SeqsUpTo(_, _)
SeqsUpTo(S, n) ==
    IF n = 0 THEN {<<>>}
    ELSE LET shorter == SeqsUpTo(S, n - 1)
         IN  shorter \cup {Append(q, x) : q \in shorter, x \in S}

\* the input files: a missing file, the sample sheet with up to MaxRows rows,
\* or one of the other header rows with at most one row
InputFiles ==
    {[exists |-> FALSE, fieldnames |-> <<>>, rows |-> <<>>]}
    \cup {[exists |-> TRUE, fieldnames |-> SampleHeader, rows |-> r] :
            r \in SeqsUpTo(RowPool, MaxRows)}
    \cup {[exists |-> TRUE, fieldnames |-> h, rows |-> r] :
            h \in HeaderPool \ {SampleHeader}, r \in SeqsUpTo(RowPool, 1)}

NoCounts == [created |-> 0, updated |-> 0, skipped |-> 0, failed |-> 0]

VARIABLES
    input,      \* the CSV file at args.csv_path
    cacheFile,  \* the file at args.cache: [state, data], the state "missing",
                \* "corrupt" (not JSON), "ok" (a JSON object, its entries in
                \* data), "list" (a JSON array) or "null" (JSON null)
    store,      \* the committed venues
    svc,        \* what the external service knows, fixed when first asked
    transient,  \* the service has failed once on a place it knows, or may know
    runNo,      \* 0 before the first run, then the number of the run
    pc,         \* "idle", "rows", "geocode", "exited"
    dry,        \* args.dry_run of the run
    exitCode,   \* exit status of the run, -1 while it runs
    cache,      \* the dict cache of main: its entries
    cacheType,  \* the type of the object cache is bound to: "dict", or
                \* "list" or "NoneType" when the cache file held no JSON object
    db,         \* the session: committed and pending venues (after the run:
                \* what it held when it was committed or rolled back)
    idx,        \* rows read from the reader
    cnt,        \* created, updated, skipped, failed
    ci,         \* geocode_bali: position in candidates
    ti,         \* geocode_bali: attempts made on the candidate
    sinceLast,  \* rate limiter: time since the last query, -1 if none yet
    gap,        \* time between the last two queries of the run, -1 if none
    outcome,    \* per row of the run: the counter it fell under
    locs,       \* per row of the run: what geocode_bali returned
    asked,      \* the queries of the geocode_bali call in progress or last made
    askedRow,   \* the row that call was made for, 0 if none yet
    extCalls,   \* per cache key: geocode_bali calls of the run that missed the cache
    firstWin,   \* per cache key: the first value the cache held in the run
    dbBefore,   \* the session before the last row was processed
    storeBefore,\* the store when the run started
    writeFailed,\* the cache file could not be written at the end of the run
    prev,       \* summary of the previous run
    call        \* a call of geocode_bali for its candidates alone: where it
                \* is, its argument, norm and candidates

vars == <<input, cacheFile, store, svc, transient, runNo, pc, dry, exitCode,
          cache, cacheType, db, idx, cnt, ci, ti, sinceLast, gap, outcome, locs, asked,
          askedRow, extCalls, firstWin, dbBefore, storeBefore, writeFailed, prev,
          call>>

envVars == <<input, svc, transient>>

NoPrev == [dry |-> FALSE, cnt |-> NoCounts, outcome |-> <<>>, locs |-> <<>>,
           store |-> <<>>, exitCode |-> -1]

\* no call of geocode_bali for its candidates alone
NoCall == [at |-> "none", raw_address |-> <<>>, norm |-> <<>>, candidates |-> <<>>]

Init ==
    /\ input \in InputFiles
    /\ cacheFile = [state |-> "missing", data |-> <<>>]
    /\ store = <<>>
    /\ svc = <<>>
    /\ transient = FALSE
    /\ runNo = 0
    /\ pc = "idle"
    /\ dry = FALSE
    /\ exitCode = -1
    /\ cache = <<>>
    /\ cacheType = "dict"
    /\ db = <<>>
    /\ idx = 0
    /\ cnt = NoCounts
    /\ ci = 0
    /\ ti = 0
    /\ sinceLast = -1
    /\ gap = -1
    /\ outcome = <<>>
    /\ locs = <<>>
    /\ asked = <<>>
    /\ askedRow = 0
    /\ extCalls = <<>>
    /\ firstWin = <<>>
    /\ dbBefore = <<>>
    /\ storeBefore = <<>>
    /\ writeFailed = FALSE
    /\ prev = NoPrev
    /\ call = NoCall

(***************************************************************************)
(* The run of main.                                                        *)
(***************************************************************************)

Min(a, b) == IF a < b THEN a ELSE b

Max(a, b) == IF a > b THEN a ELSE b

\* d more tenths pass; the clock of the limiter is kept up to ArgsSleep, past
\* which the limiter never waits
Elapse(since, d) == IF since = -1 THEN -1 ELSE Min(since + d, ArgsSleep)

\* geolocator.geocode called without the rate limiter: no wait before a query
NoRateLimiter(since) == since

\* RateLimiter(geolocator.geocode, min_delay_seconds=args.sleep): the time
\* between the previous query and this one, after the limiter has slept for
\* what is left of the minimum delay (-1 for the first query of the run)
RateLimiter(since) == IF since = -1 THEN -1 ELSE Max(since, ArgsSleep)

\* lines 131-137: the cache main starts with. json.load raises on a file that
\* is not JSON and returns whatever value a JSON file holds: the entries of an
\* object, and no entries otherwise
LoadCache(file) == IF file.state = "ok" THEN file.data ELSE <<>>

\* lines 131-137: the type of the value main starts with as its cache
LoadCacheType(file) ==
    CASE file.state = "list" -> "list"
      [] file.state = "null" -> "NoneType"
      [] OTHER               -> "dict"

\* the state of a cache file json.dump wrote a value of the type to
DumpedState(type) ==
    CASE type = "list"     -> "list"
      [] type = "NoneType" -> "null"
      [] OTHER             -> "ok"

\* lines 209-213: the cache file after the attempt to write it; the write
\* succeeds, fails before the file is opened, or fails after it was truncated
SaveCache(file, dict, type, how) ==
    CASE how = "written"  -> [state |-> DumpedState(type), data |-> dict]
      [] how = "unopened" -> file
      [] how = "partial"  -> [state |-> "corrupt", data |-> <<>>]

\* ParseRow and Candidates over the inputs of the model, computed once
ParsedRows == [h \in HeaderPool |-> [r \in RowPool |-> ParseRow(h, r)]]

AddressesRead == {ParsedRows[h][r].address : h \in HeaderPool, r \in RowPool}

CandidateLists == [a \in AddressesRead |-> Candidates(a)]

CacheKeys == [a \in AddressesRead |-> CacheKey(a)]

\* the row the reader yields next, parsed
CurRow == ParsedRows[input.fieldnames][input.rows[idx + 1]]

CurCandidates == CandidateLists[CurRow.address]

CurKey == CacheKeys[CurRow.address]

Bump(c, counter) == [c EXCEPT ![counter] = c[counter] + 1]

\* RowEnds with break in place of continue: the rows left are not read
RowEndsBreak(counter, loc) ==
    /\ cnt' = Bump(cnt, counter)
    /\ outcome' = Append(outcome, counter)
    /\ locs' = Append(locs, loc)
    /\ dbBefore' = db
    /\ idx' = Len(input.rows)
    /\ pc' = "rows"
    /\ UNCHANGED db

\* the row ends under a counter without touching the session (continue)
RowEnds(counter, loc) ==
    /\ cnt' = Bump(cnt, counter)
    /\ outcome' = Append(outcome, counter)
    /\ locs' = Append(locs, loc)
    /\ dbBefore' = db
    /\ idx' = idx + 1
    /\ pc' = "rows"
    /\ UNCHANGED db

\* lines 172-206: the row after geocode_bali returned loc
AfterGeocode(loc) ==
    IF loc = NoLoc
    THEN RowEnds("failed", loc)
    ELSE LET r == Reconcile(db, CurRow.name, CurRow.address, loc,
                            CurRow.insta_name, CurRow.website)
         IN  /\ db' = r.session
             /\ cnt' = Bump(cnt, r.counter)
             /\ outcome' = Append(outcome, r.counter)
             /\ locs' = Append(locs, loc)
             /\ dbBefore' = db
             /\ idx' = idx + 1
             /\ pc' = "rows"

\* lines 124-126: the input file is missing
ExitMissing ==
    /\ pc = "idle"
    /\ ~input.exists
    /\ pc' = "exited"
    /\ exitCode' = 1
    /\ runNo' = 1
    /\ UNCHANGED <<envVars, call, cacheFile, store, dry, cache, cacheType, db, idx, cnt, ci, ti,
                   sinceLast, gap, outcome, locs, asked, askedRow, extCalls,
                   firstWin, dbBefore, storeBefore, writeFailed, prev>>

\* ExitHeader with the exit code of the missing file
ExitHeaderCode1 ==
    /\ pc = "idle"
    /\ input.exists
    /\ HeaderMissing(input.fieldnames)
    /\ cache' = LoadCache(cacheFile)
    /\ cacheType' = LoadCacheType(cacheFile)
    /\ pc' = "exited"
    /\ exitCode' = 1
    /\ runNo' = 1
    /\ UNCHANGED <<envVars, call, cacheFile, store, dry, db, idx, cnt, ci, ti,
                   sinceLast, gap, outcome, locs, asked, askedRow, extCalls,
                   firstWin, dbBefore, storeBefore, writeFailed, prev>>

\* lines 128-153: the cache is loaded, then a required column is missing
ExitHeader ==
    /\ pc = "idle"
    /\ input.exists
    /\ HeaderMissing(input.fieldnames)
    /\ cache' = LoadCache(cacheFile)
    /\ cacheType' = LoadCacheType(cacheFile)
    /\ pc' = "exited"
    /\ exitCode' = 2
    /\ runNo' = 1
    /\ UNCHANGED <<envVars, call, cacheFile, store, dry, db, idx, cnt, ci, ti,
                   sinceLast, gap, outcome, locs, asked, askedRow, extCalls,
                   firstWin, dbBefore, storeBefore, writeFailed, prev>>

\* lines 114-159: a run starts, the first or one more over the same input
\* after a run that ended with exit code 0; the second run is not a dry run
StartRun(d) ==
    /\ \/ pc = "idle"
       \/ pc = "exited" /\ exitCode = 0 /\ runNo = 1 /\ ~d
    /\ input.exists
    /\ ~HeaderMissing(input.fieldnames)
    /\ prev' = IF pc = "idle" THEN NoPrev
               ELSE [dry |-> dry, cnt |-> cnt, outcome |-> outcome,
                     locs |-> locs, store |-> store, exitCode |-> exitCode]
    /\ runNo' = runNo + 1
    /\ dry' = d
    /\ exitCode' = -1
    /\ cache' = LoadCache(cacheFile)
    /\ cacheType' = LoadCacheType(cacheFile)
    /\ firstWin' = LoadCache(cacheFile)
    /\ db' = store
    /\ dbBefore' = store
    /\ storeBefore' = store
    /\ idx' = 0
    /\ cnt' = NoCounts
    /\ ci' = 0
    /\ ti' = 0
    /\ sinceLast' = -1
    /\ gap' = -1
    /\ outcome' = <<>>
    /\ locs' = <<>>
    /\ asked' = <<>>
    /\ askedRow' = 0
    /\ extCalls' = <<>>
    /\ writeFailed' = FALSE
    /\ pc' = "rows"
    /\ UNCHANGED <<envVars, call, cacheFile, store>>

\* lines 167-169: a blank venue name or address
RowBlank ==
    /\ pc = "rows"
    /\ idx < Len(input.rows)
    /\ CurRow.name = <<>> \/ CurRow.address = <<>>
    /\ RowEnds("skipped", NoLoc)
    /\ UNCHANGED <<envVars, call, cacheFile, store, runNo, dry, exitCode, cache, cacheType, ci, ti,
                   sinceLast, gap, asked, askedRow, extCalls, firstWin,
                   storeBefore, writeFailed, prev>>

\* lines 72-74: the address is in the cache; the value held for it is a
\* coordinate, or a value "not loc" takes for no result
RowCached ==
    /\ pc = "rows"
    /\ idx < Len(input.rows)
    /\ CurRow.name # <<>> /\ CurRow.address # <<>>
    /\ cacheType = "dict"
    /\ CurKey \in DOMAIN cache
    /\ cache[CurKey] # BadValue
    /\ AfterGeocode(cache[CurKey])
    /\ UNCHANGED <<envVars, call, cacheFile, store, runNo, dry, exitCode, cache, cacheType, ci, ti,
                   sinceLast, gap, asked, askedRow, extCalls, firstWin,
                   storeBefore, writeFailed, prev>>

\* lines 76-93: the address is not in the cache, the candidates are built
RowMiss ==
    /\ pc = "rows"
    /\ idx < Len(input.rows)
    /\ CurRow.name # <<>> /\ CurRow.address # <<>>
    /\ cacheType \in {"dict", "list"}
    /\ CurKey \notin DOMAIN cache
    /\ pc' = "geocode"
    /\ ci' = 1
    /\ ti' = 0
    /\ asked' = <<>>
    /\ askedRow' = idx + 1
    /\ extCalls' =
         LET k == CurKey
         IN  IF k \in DOMAIN extCalls
             THEN [extCalls EXCEPT ![k] = @ + 1] ELSE extCalls @@ (k :> 1)
    /\ UNCHANGED <<envVars, call, cacheFile, store, runNo, dry, exitCode, cache, cacheType, db, idx,
                   cnt, sinceLast, gap, outcome, locs, firstWin, dbBefore,
                   storeBefore, writeFailed, prev>>

\* CacheStore without the assignment of line 105
CacheStoreDropped(dict, key, res) == dict

\* lines 103-106: the dict after a query found res
CacheStore(dict, key, res) ==
    IF key \in DOMAIN dict THEN [dict EXCEPT ![key] = res] ELSE dict @@ (key :> res)

\* lines 95-106: a query finds the candidate
QueryFound(res) ==
    /\ pc = "geocode"
    /\ cacheType = "dict"
    /\ LET c == CurCandidates[ci]
       IN  /\ c \in DOMAIN svc => svc[c] = res
           /\ svc' = IF c \in DOMAIN svc THEN svc ELSE svc @@ (c :> res)
           /\ asked' = Append(asked, [cand |-> c, res |-> res])
    /\ gap' = RateLimiter(sinceLast)
    /\ sinceLast' = 0
    /\ cache' = CacheStore(cache, CurKey, res)
    /\ firstWin' = IF CurKey \in DOMAIN firstWin THEN firstWin
                   ELSE firstWin @@ (CurKey :> res)
    /\ AfterGeocode(res)
    /\ UNCHANGED <<input, call, transient, cacheFile, store, runNo, dry, exitCode,
                   cacheType, ci, ti,
                   askedRow, extCalls, storeBefore, writeFailed, prev>>

\* AfterFailure with one attempt too many per candidate (range(tries + 1))
AfterFailureExtraTry ==
    /\ gap' = RateLimiter(sinceLast)
    /\ sinceLast' = Elapse(0, ArgsSleep)
    /\ asked' = Append(asked, [cand |-> CurCandidates[ci], res |-> NoLoc])
    /\ IF ti + 1 < Tries + 1
       THEN /\ ti' = ti + 1
            /\ UNCHANGED <<ci, pc, db, idx, cnt, outcome, locs, dbBefore>>
       ELSE IF ci < Len(CurCandidates)
       THEN /\ ci' = ci + 1
            /\ ti' = 0
            /\ UNCHANGED <<pc, db, idx, cnt, outcome, locs, dbBefore>>
       ELSE /\ AfterGeocode(NoLoc)
            /\ UNCHANGED <<ci, ti>>

\* lines 93-108 after a query that found nothing: sleep, then the next attempt,
\* the next candidate, or None when every candidate is exhausted
AfterFailure ==
    /\ gap' = RateLimiter(sinceLast)
    /\ sinceLast' = Elapse(0, ArgsSleep)
    /\ asked' = Append(asked, [cand |-> CurCandidates[ci], res |-> NoLoc])
    /\ IF ti + 1 < Tries
       THEN /\ ti' = ti + 1
            /\ UNCHANGED <<ci, pc, db, idx, cnt, outcome, locs, dbBefore>>
       ELSE IF ci < Len(CurCandidates)
       THEN /\ ci' = ci + 1
            /\ ti' = 0
            /\ UNCHANGED <<pc, db, idx, cnt, outcome, locs, dbBefore>>
       ELSE /\ AfterGeocode(NoLoc)
            /\ UNCHANGED <<ci, ti>>

\* QueryNotFound with the failure stored in the cache when the lookup gives up
QueryNotFoundCached ==
    /\ pc = "geocode"
    /\ LET c == CurCandidates[ci]
       IN  /\ c \in DOMAIN svc => svc[c] = NoLoc
           /\ svc' = IF c \in DOMAIN svc THEN svc ELSE svc @@ (c :> NoLoc)
    /\ AfterFailure
    /\ cache' = IF ti + 1 >= Tries /\ ci >= Len(CurCandidates)
                THEN cache @@ (CurKey :> NoLoc) ELSE cache
    /\ UNCHANGED <<input, call, transient, cacheFile, store, runNo, dry, exitCode,
                   cacheType,
                   askedRow, extCalls, firstWin, storeBefore, writeFailed, prev>>

\* a query for a place the service does not know
QueryNotFound ==
    /\ pc = "geocode"
    /\ LET c == CurCandidates[ci]
       IN  /\ c \in DOMAIN svc => svc[c] = NoLoc
           /\ svc' = IF c \in DOMAIN svc THEN svc ELSE svc @@ (c :> NoLoc)
    /\ AfterFailure
    /\ UNCHANGED <<input, call, transient, cacheFile, store, runNo, dry, exitCode, cache, cacheType,
                   askedRow, extCalls, firstWin, storeBefore, writeFailed, prev>>

\* a query that fails although the service knows, or may know, the place (a
\* timeout, an ambiguous answer); the service does so at most once
QueryTransient ==
    /\ pc = "geocode"
    /\ ~transient
    /\ LET c == CurCandidates[ci]
       IN  c \in DOMAIN svc => svc[c] # NoLoc
    /\ transient' = TRUE
    /\ AfterFailure
    /\ UNCHANGED <<input, call, svc, cacheFile, store, runNo, dry, exitCode, cache, cacheType,
                   askedRow, extCalls, firstWin, storeBefore, writeFailed, prev>>

\* Finish with a commit where the dry run rolls back
FinishDryCommits(how) ==
    /\ pc = "rows"
    /\ idx = Len(input.rows)
    /\ cacheFile' = SaveCache(cacheFile, cache, cacheType, how)
    /\ writeFailed' = (how # "written")
    /\ IF UniqueNames(db)
       THEN /\ store' = db
            /\ exitCode' = 0
       ELSE /\ exitCode' = 1
            /\ UNCHANGED store
    /\ pc' = "exited"
    /\ UNCHANGED <<envVars, call, runNo, dry, cache, cacheType, db, idx, cnt, ci, ti, sinceLast, gap,
                   outcome, locs, asked, askedRow, extCalls, firstWin, dbBefore,
                   storeBefore, prev>>

\* Finish without the try/except of lines 209-213: a failed write of the cache
\* file raises, the session is closed without a commit
FinishWriteFailureAborts(how) ==
    /\ pc = "rows"
    /\ idx = Len(input.rows)
    /\ cacheFile' = SaveCache(cacheFile, cache, cacheType, how)
    /\ writeFailed' = (how # "written")
    /\ IF how # "written"
       THEN /\ exitCode' = 1
            /\ UNCHANGED store
       ELSE IF dry
       THEN /\ exitCode' = 0
            /\ UNCHANGED store
       ELSE IF UniqueNames(db)
       THEN /\ store' = db
            /\ exitCode' = 0
       ELSE /\ exitCode' = 1
            /\ UNCHANGED store
    /\ pc' = "exited"
    /\ UNCHANGED <<envVars, call, runNo, dry, cache, cacheType, db, idx, cnt, ci, ti, sinceLast, gap,
                   outcome, locs, asked, askedRow, extCalls, firstWin, dbBefore,
                   storeBefore, prev>>

\* lines 208-222: the cache is saved, the session committed or rolled back
Finish(how) ==
    /\ pc = "rows"
    /\ idx = Len(input.rows)
    /\ cacheFile' = SaveCache(cacheFile, cache, cacheType, how)
    /\ writeFailed' = (how # "written")
    /\ IF dry
       THEN \* db.rollback()
            /\ exitCode' = 0
            /\ UNCHANGED store
       ELSE IF UniqueNames(db)
       THEN \* db.commit()
            /\ store' = db
            /\ exitCode' = 0
       ELSE \* db.commit() raises IntegrityError, the session is closed
            /\ exitCode' = 1
            /\ UNCHANGED store
    /\ pc' = "exited"
    /\ UNCHANGED <<envVars, call, runNo, dry, cache, cacheType, db, idx, cnt, ci, ti, sinceLast, gap,
                   outcome, locs, asked, askedRow, extCalls, firstWin, dbBefore,
                   storeBefore, prev>>

\* one or two runs; a write of the cache file that fails leaves the file as it
\* was (a write that fails midway is among the steps of NextCacheFile)
Next ==
    \/ ExitMissing
    \/ ExitHeader
    \/ \E d \in BOOLEAN : StartRun(d)
    \/ RowBlank
    \/ RowCached
    \/ RowMiss
    \/ \E res \in Coords : QueryFound(res)
    \/ QueryNotFound
    \/ QueryTransient
    \/ \E how \in {"written", "unopened"} : Finish(how)

Spec == Init /\ [][Next]_vars

(***************************************************************************)
(* One run of main over any content of the cache file.                     *)
(***************************************************************************)

\* an uncaught exception leaves the loop: the session is closed by the finally
\* of line 221 without a commit, the cache file is not written, the
\* interpreter exits with status 1
Raised ==
    /\ pc' = "exited"
    /\ exitCode' = 1

\* line 73 with the cache bound to None: "key in cache" raises TypeError
MembershipRaises ==
    /\ pc = "rows"
    /\ idx < Len(input.rows)
    /\ CurRow.name # <<>> /\ CurRow.address # <<>>
    /\ cacheType = "NoneType"
    /\ Raised
    /\ UNCHANGED <<envVars, call, cacheFile, store, runNo, dry, cache, cacheType, db, idx,
                   cnt, ci, ti, sinceLast, gap, outcome, locs, asked, askedRow,
                   extCalls, firstWin, dbBefore, storeBefore, writeFailed, prev>>

\* lines 73-74 return a cached value that is no coordinate; lines 182-183 may
\* set the address of the venue found, then loc["lat"] of line 184 or of line
\* 199 raises TypeError or KeyError
CachedValueRaises ==
    /\ pc = "rows"
    /\ idx < Len(input.rows)
    /\ CurRow.name # <<>> /\ CurRow.address # <<>>
    /\ cacheType = "dict"
    /\ CurKey \in DOMAIN cache
    /\ cache[CurKey] = BadValue
    /\ db' = LET e == FindByName(db, CurRow.name)
             IN  IF e # 0 THEN [db EXCEPT ![e].address = CurRow.address] ELSE db
    /\ dbBefore' = db
    /\ Raised
    /\ UNCHANGED <<envVars, call, cacheFile, store, runNo, dry, cache, cacheType, idx,
                   cnt, ci, ti, sinceLast, gap, outcome, locs, asked, askedRow,
                   extCalls, firstWin, storeBefore, writeFailed, prev>>

\* lines 95-105 with the cache bound to a list: a query finds the candidate
\* and "cache[key] = res" raises TypeError
CacheStoreRaises(res) ==
    /\ pc = "geocode"
    /\ cacheType = "list"
    /\ LET c == CurCandidates[ci]
       IN  /\ c \in DOMAIN svc => svc[c] = res
           /\ svc' = IF c \in DOMAIN svc THEN svc ELSE svc @@ (c :> res)
           /\ asked' = Append(asked, [cand |-> c, res |-> res])
    /\ gap' = RateLimiter(sinceLast)
    /\ sinceLast' = 0
    /\ Raised
    /\ UNCHANGED <<input, call, transient, cacheFile, store, runNo, dry, cache, cacheType,
                   db, idx, cnt, ci, ti, outcome, locs, askedRow, extCalls,
                   firstWin, dbBefore, storeBefore, writeFailed, prev>>

\* the key of the address of the first rows of RowPool
SampleKey == <<"A">>

\* the cache files a run may find: none, one that is not JSON, a JSON object
\* (empty, or holding for the address a coordinate, null, or another value), a
\* JSON array, JSON null
CacheFilePool ==
    {[state |-> st, data |-> <<>>] :
        st \in {"missing", "corrupt", "ok", "list", "null"}}
    \cup {[state |-> "ok", data |-> (SampleKey :> v)] :
            v \in Coords \cup {NoLoc, BadValue}}

\* before the run: any input file, any cache file, an empty store
InitCacheFile ==
    /\ input \in InputFiles
    /\ cacheFile \in CacheFilePool
    /\ store = <<>>
    /\ svc = <<>>
    /\ transient = FALSE
    /\ runNo = 0
    /\ pc = "idle"
    /\ dry = FALSE
    /\ exitCode = -1
    /\ cache = <<>>
    /\ cacheType = "dict"
    /\ db = <<>>
    /\ idx = 0
    /\ cnt = NoCounts
    /\ ci = 0
    /\ ti = 0
    /\ sinceLast = -1
    /\ gap = -1
    /\ outcome = <<>>
    /\ locs = <<>>
    /\ asked = <<>>
    /\ askedRow = 0
    /\ extCalls = <<>>
    /\ firstWin = <<>>
    /\ dbBefore = <<>>
    /\ storeBefore = <<>>
    /\ writeFailed = FALSE
    /\ prev = NoPrev
    /\ call = NoCall

\* one run: the steps of Next without a second run, and the exceptions a
\* cache that is no dict of coordinates raises
NextCacheFile ==
    \/ ExitMissing
    \/ ExitHeader
    \/ \E d \in BOOLEAN : pc = "idle" /\ StartRun(d)
    \/ RowBlank
    \/ RowCached
    \/ RowMiss
    \/ \E res \in Coords : QueryFound(res)
    \/ QueryNotFound
    \/ QueryTransient
    \/ \E how \in {"written", "unopened", "partial"} : Finish(how)
    \/ MembershipRaises
    \/ CachedValueRaises
    \/ \E res \in Coords : CacheStoreRaises(res)

SpecCacheFile == InitCacheFile /\ [][NextCacheFile]_vars

(***************************************************************************)
(* The loop of main over a store that already holds a venue, with            *)
(* geocode_bali returning any coordinate: lines 161-206 alone.               *)
(***************************************************************************)

\* the handle and the link of the first row of RowPool, as main cleans them
StoredHandle == <<"h">>

StoredLink == <<"h","t","t","p",":","/","/","x">>

\* what lat and lon of a stored venue may be
StoredDegrees == {1, 2}

\* the stores the loop may start from: empty, or holding the venue V
StorePool ==
    {<<>>}
    \cup { << [name |-> <<"V">>, address |-> <<"A">>, lat |-> la, lon |-> lo,
               instagram |-> ig, website |-> w] >> :
             la \in StoredDegrees, lo \in StoredDegrees,
             ig \in {None, StoredHandle}, w \in {None, StoredLink} }

\* the session is open on one of the stores, no row read yet
InitReconcile ==
    /\ input \in {f \in InputFiles : f.exists /\ f.fieldnames = SampleHeader
                                     /\ f.rows # <<>>}
    /\ store \in StorePool
    /\ db = store
    /\ dbBefore = store
    /\ storeBefore = store
    /\ cacheFile = [state |-> "missing", data |-> <<>>]
    /\ svc = <<>>
    /\ transient = FALSE
    /\ runNo = 1
    /\ pc = "rows"
    /\ dry = FALSE
    /\ exitCode = -1
    /\ cache = <<>>
    /\ cacheType = "dict"
    /\ idx = 0
    /\ cnt = NoCounts
    /\ ci = 0
    /\ ti = 0
    /\ sinceLast = -1
    /\ gap = -1
    /\ outcome = <<>>
    /\ locs = <<>>
    /\ asked = <<>>
    /\ askedRow = 0
    /\ extCalls = <<>>
    /\ firstWin = <<>>
    /\ writeFailed = FALSE
    /\ prev = NoPrev
    /\ call = NoCall

\* lines 171-206: geocode_bali returns loc, a coordinate or None, for the row
RowResolved(loc) ==
    /\ pc = "rows"
    /\ idx < Len(input.rows)
    /\ CurRow.name # <<>> /\ CurRow.address # <<>>
    /\ AfterGeocode(loc)
    /\ UNCHANGED <<envVars, call, cacheFile, store, runNo, dry, exitCode, cache, cacheType, ci, ti,
                   sinceLast, gap, asked, askedRow, extCalls, firstWin,
                   storeBefore, writeFailed, prev>>

NextReconcile ==
    \/ RowBlank
    \/ \E loc \in Coords \cup {NoLoc} : RowResolved(loc)

SpecReconcile == InitReconcile /\ [][NextReconcile]_vars

(***************************************************************************)
(* geocode_bali up to its candidate list, lines 76-91, over raw addresses. *)
(***************************************************************************)

\* most tokens of a raw address
MaxTokens == 3

\* what raw addresses are made of: a word, a space, a comma, a postal code, a
\* dropped and an expanded abbreviation, the region and the country
AddressTokens ==
    { <<"X">>, <<" ">>, <<",">>, <<"8","0","3","6","1">>, <<"K","o","t","a">>,
      <<"J","l",".">>, <<"b","a","l","i">>,
      <<"I","n","d","o","n","e","s","i","a">> }

\* the raw addresses of at most n tokens
RECURSIVE AddressesUpTo(_)
AddressesUpTo(n) ==
    IF n = 0 THEN {<<>>}
    ELSE LET shorter == AddressesUpTo(n - 1)
         IN  shorter \cup {a \o t : a \in shorter, t \in AddressTokens}

\* geocode_bali is called with a raw address that is not in the cache
InitText ==
    /\ call \in {[at |-> "called", raw_address |-> a, norm |-> <<>>,
                  candidates |-> <<>>] : a \in AddressesUpTo(MaxTokens)}
    /\ input = [exists |-> FALSE, fieldnames |-> <<>>, rows |-> <<>>]
    /\ cacheFile = [state |-> "missing", data |-> <<>>]
    /\ store = <<>>
    /\ svc = <<>>
    /\ transient = FALSE
    /\ runNo = 0
    /\ pc = "idle"
    /\ dry = FALSE
    /\ exitCode = -1
    /\ cache = <<>>
    /\ cacheType = "dict"
    /\ db = <<>>
    /\ idx = 0
    /\ cnt = NoCounts
    /\ ci = 0
    /\ ti = 0
    /\ sinceLast = -1
    /\ gap = -1
    /\ outcome = <<>>
    /\ locs = <<>>
    /\ asked = <<>>
    /\ askedRow = 0
    /\ extCalls = <<>>
    /\ firstWin = <<>>
    /\ dbBefore = <<>>
    /\ storeBefore = <<>>
    /\ writeFailed = FALSE
    /\ prev = NoPrev

progVars == <<input, cacheFile, store, svc, transient, runNo, pc, dry, exitCode,
              cache, cacheType, db, idx, cnt, ci, ti, sinceLast, gap, outcome,
              locs, asked, askedRow, extCalls, firstWin, dbBefore, storeBefore,
              writeFailed, prev>>

\* lines 77-78: norm = normalize_address(raw_address)
CallNormalize ==
    /\ call.at = "called"
    /\ call' = [call EXCEPT !.at = "normalized",
                            !.norm = normalize_address(call.raw_address)]
    /\ UNCHANGED progVars

\* lines 80-91: the fallbacks are added to the candidates
CallCandidates ==
    /\ call.at = "normalized"
    /\ call' = [call EXCEPT !.at = "candidates",
                            !.candidates = CandidatesFrom(call.norm,
                                                          call.raw_address)]
    /\ UNCHANGED progVars

NextText ==
    \/ CallNormalize
    \/ CallCandidates

SpecText == InitText /\ [][NextText]_vars

(***************************************************************************)
(* Properties.                                                             *)
(***************************************************************************)

\* row i of the input as main parses it
RowAt(i) == ParsedRows[input.fieldnames][input.rows[i]]

\* row i has a venue name and an address
Valid(i) == RowAt(i).name # <<>> /\ RowAt(i).address # <<>>

KeyAt(i) == CacheKeys[RowAt(i).address]

\* a run that read its rows has ended
RunEnded == pc = "exited" /\ runNo >= 1 /\ exitCode \notin {-1, 2} /\ input.exists

\* how many rows of the run fell under the counter
Counted(counter) == Cardinality({i \in DOMAIN outcome : outcome[i] = counter})

\* C3: over a whole run, any two consecutive queries to the external service
\* are at least the configured delay (--sleep) apart, be they retries of one
\* candidate, candidates of one address or queries for different records.
C3_MinDelayBetweenQueries == gap = -1 \/ gap >= ArgsSleep

\* a query for a second record right after the query that resolved the first
C3_Witness ==
    /\ pc = "rows"
    /\ idx = 2
    /\ Cardinality(DOMAIN extCalls) = 2
    /\ locs[1] # NoLoc
    /\ Len(asked) = 1
    /\ asked[1].res # NoLoc
    /\ gap >= ArgsSleep

\* C10: for one address the candidates are queried in generated order, each at
\* most Tries times; the lookup stops at the first query that finds the place
\* and returns its coordinate; it returns "not found" only after every
\* candidate failed Tries times; so at most 3 * Tries queries are made.
C10_CandidateLoop ==
    askedRow # 0 =>
        LET cands == CandidateLists[RowAt(askedRow).address]
            done  == Len(locs) >= askedRow
        IN  /\ Len(cands) \in 1..3
            /\ Len(asked) <= Len(cands) * Tries
            /\ \A k \in DOMAIN asked :
                  /\ asked[k].cand = cands[((k - 1) \div Tries) + 1]
                  /\ asked[k].res # NoLoc => k = Len(asked) /\ done
            /\ done =>
                  /\ asked # <<>>
                  /\ locs[askedRow] = asked[Len(asked)].res
                  /\ locs[askedRow] = NoLoc => Len(asked) = Len(cands) * Tries

\* the second candidate is found at its second attempt, after two failures of
\* the first candidate
C10_Witness ==
    /\ askedRow # 0
    /\ Len(locs) >= askedRow
    /\ Len(asked) = 2 * Tries
    /\ asked[2 * Tries].res # NoLoc
    /\ Len(CandidateLists[RowAt(askedRow).address]) = 3

\* C5: the cache holds successes only, in memory at every point of a run and
\* in the file written at its end; a lookup that failed adds no entry for its
\* address, so the next run queries the service for it again.
C5_SuccessesOnly ==
    /\ \A k \in DOMAIN cache : cache[k] \in Coords
    /\ \A k \in DOMAIN cacheFile.data : cacheFile.data[k] \in Coords
    /\ pc \in {"rows", "geocode"} /\ idx >= 1 /\ outcome[idx] = "failed"
          => KeyAt(idx) \notin DOMAIN cache
    /\ RunEnded /\ ~writeFailed =>
          \A i \in DOMAIN outcome :
              (outcome[i] = "failed"
                 /\ \A j \in DOMAIN outcome : KeyAt(j) = KeyAt(i) => locs[j] = NoLoc)
              => KeyAt(i) \notin DOMAIN cacheFile.data
    /\ runNo = 2 /\ pc = "rows" /\ idx < Len(input.rows) /\ Valid(idx + 1)
          /\ prev.outcome[idx + 1] = "failed"
          => KeyAt(idx + 1) \notin DOMAIN cache

\* in the second run the service is queried again for an address whose lookup
\* failed in the first run, after that run wrote other entries to the cache file
C5_Witness ==
    /\ runNo = 2
    /\ pc = "geocode"
    /\ prev.outcome[idx + 1] = "failed"
    /\ cacheFile.state = "ok"
    /\ DOMAIN cacheFile.data # {}

\* C7: a row with a blank venue name or address counts as skipped, a row whose
\* lookup is exhausted as failed; neither changes the session nor ends the run;
\* every row is read and falls under exactly one counter, so that at the end
\* created + updated + skipped + failed is the number of rows.
C7_FailureIsolation ==
    /\ Len(outcome) = idx /\ Len(locs) = idx
    /\ cnt.created + cnt.updated + cnt.skipped + cnt.failed = idx
    /\ \A c \in {"created", "updated", "skipped", "failed"} : cnt[c] = Counted(c)
    /\ \A i \in DOMAIN outcome :
          /\ ~Valid(i) => outcome[i] = "skipped"
          /\ Valid(i) /\ locs[i] = NoLoc => outcome[i] = "failed"
          /\ Valid(i) /\ locs[i] # NoLoc => outcome[i] # "failed"
    /\ idx >= 1 /\ (~Valid(idx) \/ locs[idx] = NoLoc) => db = dbBefore
    /\ pc = "exited" /\ input.exists /\ ~HeaderMissing(input.fieldnames)
          => idx = Len(input.rows) /\ exitCode = 0

\* a run ended in which a row whose lookup was exhausted was followed by a row
\* that was created
C7_Witness ==
    /\ RunEnded
    /\ Len(outcome) = 2
    /\ Valid(1) /\ outcome[1] = "failed"
    /\ outcome[2] = "created"
    /\ cnt = [created |-> 1, updated |-> 0, skipped |-> 0, failed |-> 1]

\* C8: a failure to write the cache file at the end of a run is only a
\* warning: the run ends with exit code 0, every row was read and counted, and
\* the changes of a run that is not a dry run are committed all the same.
C8_WriteFailureNotFatal ==
    pc = "exited" /\ writeFailed =>
        /\ exitCode = 0
        /\ idx = Len(input.rows)
        /\ cnt.created + cnt.updated + cnt.skipped + cnt.failed = Len(input.rows)
        /\ ~dry => store = db
        /\ dry => store = storeBefore

\* a run that is not a dry run created and updated a venue, could not write the
\* cache file, and committed
C8_Witness ==
    /\ pc = "exited"
    /\ writeFailed
    /\ ~dry
    /\ cnt.created = 1 /\ cnt.updated = 1
    /\ store # storeBefore
    /\ store = db
    /\ cacheFile.state # "ok"

\* a required column is absent from the header row of the input, whatever
\* whitespace surrounds the names: Venue, Address / Notes, Instagram name, or
\* the link column
ColumnAbsent ==
    LET stripped == {Strip(input.fieldnames[i]) : i \in DOMAIN input.fieldnames}
    IN  \/ HdrVenue \notin stripped
        \/ HdrAddress \notin stripped
        \/ HdrInstaName \notin stripped
        \/ HdrLink \notin stripped

\* no lookup was made and neither the store nor the cache file has changed
\* since the initial state
NothingDone ==
    /\ asked = <<>> /\ askedRow = 0 /\ extCalls = <<>> /\ svc = <<>> /\ gap = -1
    /\ store = <<>> /\ db = <<>>
    /\ cacheFile = [state |-> "missing", data |-> <<>>]
    /\ idx = 0 /\ cnt = NoCounts

\* C9: a missing input file ends the run with exit code 1, a missing required
\* column with exit code 2, both before any row is read: no lookup, no change
\* of the store, no cache file written; any other run ends with exit code 0.
C9_FatalInputs ==
    pc = "exited" =>
        /\ ~input.exists => exitCode = 1 /\ NothingDone
        /\ input.exists /\ ColumnAbsent => exitCode = 2 /\ NothingDone
        /\ input.exists /\ ~ColumnAbsent => exitCode = 0

\* the run over a file without the address column, with a row, has ended
C9_Witness ==
    /\ pc = "exited"
    /\ exitCode = 2
    /\ input.exists
    /\ Len(input.rows) = 1
    /\ NothingDone

\* the rows of the run so far that were reconciled against the session
Reconciled(i) == i \in DOMAIN outcome /\ Valid(i) /\ locs[i] # NoLoc

\* C2: the upsert decision of a row sees the rows before it in the same run:
\* of two rows with the same venue name that is not in the store the first is
\* created and the second is updated or skipped; the session never holds two
\* venues of one name and the commit at the end is not rejected.
C2_SeesEarlierRows ==
    /\ UniqueNames(db)
    /\ UniqueNames(store)
    /\ \A i, j \in DOMAIN outcome :
          Reconciled(i) /\ Reconciled(j) /\ i < j /\ RowAt(i).name = RowAt(j).name
          => outcome[j] \in {"updated", "skipped"}
    /\ \A i \in DOMAIN outcome :
          (Reconciled(i)
             /\ FindByName(storeBefore, RowAt(i).name) = 0
             /\ \A h \in 1..(i - 1) : Reconciled(h) => RowAt(h).name # RowAt(i).name)
          => outcome[i] = "created"
    /\ RunEnded => exitCode = 0
    /\ RunEnded /\ ~dry => store = db

\* two rows with the same new venue name: the first created, the second
\* updated, one venue committed
C2_Witness ==
    /\ RunEnded
    /\ runNo = 1
    /\ ~dry
    /\ outcome = <<"created", "updated">>
    /\ RowAt(1).name = RowAt(2).name
    /\ Len(store) = 1

\* two valid rows of the input have the cache key k
SharedKey(k) ==
    \E i, j \in DOMAIN input.rows :
        i < j /\ Valid(i) /\ Valid(j) /\ KeyAt(i) = k /\ KeyAt(j) = k

\* C6 as claimed: when two rows of a run have the same trimmed address, exactly
\* one lookup for that address goes to the external service in the run.
C6_ExactlyOneLookup ==
    RunEnded =>
        \A i \in DOMAIN input.rows :
            Valid(i) /\ SharedKey(KeyAt(i))
            => KeyAt(i) \in DOMAIN extCalls /\ extCalls[KeyAt(i)] = 1

\* C6 as amended: once the lookup of an address has succeeded in a run, or the
\* address was in the cache the run loaded, no query is made for that address
\* again: later rows with the same trimmed address get the coordinate of the
\* cache, and an entry of the cache is never overwritten during the run.  (An
\* address whose lookup failed is not cached and is looked up again.)
C6_CacheReuse ==
    /\ pc = "geocode" => CurKey \notin DOMAIN firstWin
    /\ pc \in {"rows", "geocode"} =>
          /\ DOMAIN firstWin = DOMAIN cache
          /\ \A k \in DOMAIN firstWin : cache[k] = firstWin[k]
    /\ \A i, j \in DOMAIN locs :
          i < j /\ Valid(i) /\ Valid(j) /\ KeyAt(i) = KeyAt(j) /\ locs[i] # NoLoc
          => locs[j] = locs[i]
    /\ \A k \in DOMAIN extCalls :
          extCalls[k] <= 1 + Cardinality({i \in DOMAIN locs :
                                            Valid(i) /\ KeyAt(i) = k /\ locs[i] = NoLoc})

\* two rows with the same trimmed address but different raw text and venue:
\* one lookup went out, the second row was created from the cache
C6_Witness ==
    /\ RunEnded
    /\ runNo = 1
    /\ Len(outcome) = 2
    /\ input.rows[1][2] # input.rows[2][2]
    /\ KeyAt(1) = KeyAt(2)
    /\ outcome = <<"created", "created">>
    /\ extCalls[KeyAt(1)] = 1
    /\ locs[1] = locs[2]

\* the rows that share a venue name do not contradict each other: they agree
\* in the trimmed address and the cleaned handle and hold no two different
\* valid links
NoConflict ==
    \A i, j \in DOMAIN input.rows :
        Valid(i) /\ Valid(j) /\ RowAt(i).name = RowAt(j).name =>
            /\ RowAt(i).address = RowAt(j).address
            /\ RowAt(i).insta_name = RowAt(j).insta_name
            /\ \/ RowAt(i).website = None
               \/ RowAt(j).website = None
               \/ RowAt(i).website = RowAt(j).website

\* the second run over the same input has ended, after a first run that was
\* not a dry run, every lookup having returned what it returned in the first
RerunEnded ==
    /\ runNo = 2
    /\ RunEnded
    /\ ~prev.dry
    /\ locs = prev.locs

\* C1 as claimed: for any input, the second run over the same input reports no
\* row created or updated, every row skipped, and leaves the store unchanged.
C1_SecondRunAllSkipped ==
    RerunEnded =>
        /\ cnt.created = 0
        /\ cnt.updated = 0
        /\ cnt.skipped = Len(input.rows)
        /\ store = prev.store

\* C1 as amended: when the rows that share a venue name do not contradict each
\* other, the second run reports no row created or updated and leaves the store
\* unchanged; a row whose lookup failed in the first run fails again, every
\* other row is skipped.
C1_Idempotent ==
    RerunEnded /\ NoConflict =>
        /\ cnt.created = 0
        /\ cnt.updated = 0
        /\ \A i \in DOMAIN outcome :
              outcome[i] = IF prev.outcome[i] = "failed" THEN "failed" ELSE "skipped"
        /\ store = prev.store

\* a second run that is not a dry run skipped two rows of one venue, the first
\* run having created the venue from the first and updated it from the second
C1_Witness ==
    /\ RerunEnded
    /\ NoConflict
    /\ ~dry
    /\ prev.outcome = <<"created", "updated">>
    /\ outcome = <<"skipped", "skipped">>
    /\ store = prev.store
    /\ Len(store) = 1

\* C4: a dry run ends with a rollback, the store being as it was before the
\* run, and still writes the cache file; a run that is not a dry run, made
\* right after it over the same input with the lookups returning the same,
\* takes the same decision for every row and reports the same counts.
C4_DryRunNonResidual ==
    /\ RunEnded /\ dry =>
          /\ store = storeBefore
          /\ ~writeFailed => cacheFile = [state |-> "ok", data |-> cache]
    /\ runNo = 2 /\ RunEnded /\ prev.dry /\ ~dry /\ locs = prev.locs =>
          /\ outcome = prev.outcome
          /\ cnt = prev.cnt
          /\ storeBefore = prev.store

\* a dry run reported one venue created and one updated and wrote the cache
\* file; the run after it reported the same and committed the venue
C4_Witness ==
    /\ runNo = 2
    /\ RunEnded
    /\ prev.dry
    /\ ~dry
    /\ prev.cnt = [created |-> 1, updated |-> 1, skipped |-> 0, failed |-> 0]
    /\ cnt = prev.cnt
    /\ prev.store = <<>>
    /\ Len(store) = 1
    /\ extCalls = <<>>

\* the rows read so far that were reconciled against the venue named n
RowsNamed(n) == {i \in DOMAIN outcome : Reconciled(i) /\ RowAt(i).name = n}

\* the greatest member of a non-empty set of numbers
Last(S) == CHOOSE i \in S : \A j \in S : j <= i

\* lat and lon of the venue at e of a session, as a pair
PairOf(session, e) == <<session[e].lat, session[e].lon>>

\* C11: when a row matches an existing venue and the stored lat or the stored
\* lon differs from the resolved value, the venue then holds the resolved lat
\* and lon and the row counts as Updated; at any time lat and lon of a venue
\* are the pair resolved for the last row reconciled against it, and those of
\* a venue no row was reconciled against are as they were in the store.
C11_PairedUpdate ==
    /\ \A e \in DOMAIN db :
          IF RowsNamed(db[e].name) # {}
          THEN PairOf(db, e) = locs[Last(RowsNamed(db[e].name))]
          ELSE e \in DOMAIN storeBefore /\ db[e] = storeBefore[e]
    /\ LET i == Len(outcome)
       IN  i > 0 /\ Reconciled(i) =>
             LET b == FindByName(dbBefore, RowAt(i).name)
             IN  /\ b # 0 /\ PairOf(dbBefore, b) # locs[i]
                    => outcome[i] = "updated"
                 /\ (b # 0 /\ outcome[i] = "skipped")
                    => PairOf(dbBefore, b) = locs[i]

\* the stored venue differs from its row in lon alone: the row counts as
\* Updated and the venue holds the resolved pair
C11_Witness ==
    /\ Len(outcome) = 1
    /\ outcome[1] = "updated"
    /\ storeBefore # <<>>
    /\ storeBefore[1].name = RowAt(1).name
    /\ storeBefore[1].address = RowAt(1).address
    /\ storeBefore[1].instagram = RowAt(1).insta_name
    /\ storeBefore[1].website = RowAt(1).website
    /\ storeBefore[1].lat = locs[1][1]
    /\ storeBefore[1].lon # locs[1][2]
    /\ PairOf(db, 1) = locs[1]

\* the cache file is a JSON object of address -> {lat, lon}
ObjectOfCoords(file) ==
    /\ file.state = "ok"
    /\ \A k \in DOMAIN file.data : file.data[k] \in Coords

\* the run has read the header and has not exited on it
RowsStarted == runNo >= 1 /\ input.exists /\ ~HeaderMissing(input.fieldnames)

\* C12, as claimed: for every state of the cache file the load is not fatal; a
\* missing file, a file that is not JSON and a file that is no JSON object of
\* address -> {lat, lon} all give an empty cache, and the run then processes
\* every row without raising.
C12_CacheLoadNonFatal ==
    /\ (RowsStarted /\ pc = "rows" /\ idx = 0 /\ ~ObjectOfCoords(cacheFile))
       => (cache = <<>> /\ cacheType = "dict")
    /\ (RowsStarted /\ pc = "exited")
       => (exitCode = 0 /\ Len(outcome) = Len(input.rows))

\* C12, what the code does: a missing file and a file that is not JSON give an
\* empty dict; a run raises only when the file held JSON that is no object, or
\* an object with a value that is no coordinate; a run that does not raise
\* has processed every row.
C12_MissingOrCorruptIsEmpty ==
    /\ (RowsStarted /\ pc = "rows" /\ idx = 0
          /\ cacheFile.state \in {"missing", "corrupt"})
       => (cache = <<>> /\ cacheType = "dict")
    /\ (RowsStarted /\ pc = "exited" /\ exitCode # 0)
       => \/ cacheType # "dict"
          \/ \E k \in DOMAIN cache : cache[k] = BadValue
    /\ (RowsStarted /\ pc = "exited" /\ exitCode = 0)
       => Len(outcome) = Len(input.rows)

\* the cache file holds JSON null: the run raises on its first row with a
\* venue name and an address, nothing is committed
C12_Witness ==
    /\ RowsStarted
    /\ pc = "exited"
    /\ exitCode = 1
    /\ cacheFile.state = "null"
    /\ cacheType = "NoneType"
    /\ Len(outcome) < Len(input.rows)
    /\ store = <<>>

\* the position of the k-th comma of s, 0 for k = 0, Len(s) + 1 past the last
NthComma(s, k) ==
    IF k = 0 THEN 0
    ELSE IF \E i \in 1..Len(s) :
               s[i] = "," /\ Cardinality({j \in 1..i : s[j] = ","}) = k
    THEN CHOOSE i \in 1..Len(s) :
               s[i] = "," /\ Cardinality({j \in 1..i : s[j] = ","}) = k
    ELSE Len(s) + 1

NonEmptyText(p) == p # <<>>

\* the comma-separated segments of s, trimmed, the empty ones left out
Segments(s) ==
    LET n == Cardinality({i \in 1..Len(s) : s[i] = ","})
    IN  SelectSeq([k \in 1..(n + 1) |->
                      Strip(Slice(s, NthComma(s, k - 1) + 1, NthComma(s, k) - 1))],
                  NonEmptyText)

\* the candidate list the three rules give for a normalized address
RuleTwo(n, segs) ==
    IF Len(segs) >= 2 /\ Lower(segs[1] \o CommaSpace \o segs[2]) # Lower(n)
    THEN <<segs[1] \o CommaSpace \o segs[2]>> ELSE <<>>

RuleThree(earlier, third) ==
    IF \E k \in DOMAIN earlier : Lower(earlier[k]) = Lower(third)
    THEN earlier ELSE earlier \o <<third>>

ByRules(n, segs) ==
    RuleThree(<<n>> \o RuleTwo(n, segs),
              segs[1] \o CommaSpace \o TxtBali \o CommaSpace \o TxtIndonesia)

\* C13: the candidate list of a normalized address has one to three entries,
\* no two equal when case is ignored: first the normalized address; then its
\* first two (trimmed, non-empty) comma-separated segments joined by ", ", if
\* it has two and they differ from the first candidate; then its first segment
\* followed by ", Bali, Indonesia", if that differs from the candidates before.
C13_CandidateList ==
    call.at = "candidates" =>
        /\ Len(call.candidates) \in 1..3
        /\ \A i, j \in DOMAIN call.candidates :
              Lower(call.candidates[i]) = Lower(call.candidates[j]) => i = j
        /\ call.candidates[1] = call.norm
        /\ Segments(call.norm) # <<>>
        /\ call.candidates = ByRules(call.norm, Segments(call.norm))

\* "X,X": all three candidates
C13_Witness ==
    /\ call.at = "candidates"
    /\ call.raw_address = <<"X", ",", "X">>
    /\ Len(call.candidates) = 3
    /\ call.candidates[2] = <<"X", ",", " ", "X">>
    /\ call.candidates[3] = <<"X">> \o CommaSpace \o TxtBali \o CommaSpace
                               \o TxtIndonesia

\* s ends with suf
EndsWith(s, suf) ==
    Len(suf) <= Len(s) /\ SubSeq(s, Len(s) - Len(suf) + 1, Len(s)) = suf

\* s has a 5-digit postal code token
HasPostcode(s) == \E i \in 1..Len(s) : PostcodeMatch(s, i) > 0

\* s ends with the country name, the region name somewhere before it
EndsWithContext(s) ==
    /\ EndsWith(Lower(s), Lower(TxtIndonesia))
    /\ Contains(Lower(SubSeq(s, 1, Len(s) - Len(TxtIndonesia))), Lower(TxtBali))

\* C14, as claimed: for every raw address the normalized address ends with
\* the region and country context and has no 5-digit postal code token.
C14_EndsWithContext ==
    call.at # "called" => EndsWithContext(call.norm) /\ ~HasPostcode(call.norm)

\* C14, amended: the normalized address contains the region and the country
\* name, case ignored, and has no 5-digit postal code token; it ends with
\* ", Bali, Indonesia" when the raw address has neither name, and with
\* ", Indonesia" when it lacks the country name; when the raw address has the
\* country name and lacks the region name it ends with ", Bali".
C14_ContextPresent ==
    call.at # "called" =>
        LET raw == Lower(call.raw_address)
            hasBali == Contains(raw, Lower(TxtBali))
            hasIndonesia == Contains(raw, Lower(TxtIndonesia))
        IN  /\ Contains(Lower(call.norm), Lower(TxtBali))
            /\ Contains(Lower(call.norm), Lower(TxtIndonesia))
            /\ ~HasPostcode(call.norm)
            /\ ~hasBali /\ ~hasIndonesia
               => EndsWith(call.norm, CommaSpace \o TxtBali \o CommaSpace
                                         \o TxtIndonesia)
            /\ ~hasIndonesia => EndsWith(call.norm, CommaSpace \o TxtIndonesia)
            /\ hasIndonesia /\ ~hasBali
               => EndsWith(call.norm, CommaSpace \o TxtBali)

\* a postal code alone: the normalized address is ", Bali, Indonesia"
C14_Witness ==
    /\ call.at = "normalized"
    /\ call.raw_address = <<"8","0","3","6","1">>
    /\ call.norm = CommaSpace \o TxtBali \o CommaSpace \o TxtIndonesia

====
